---- MODULE Spec2Model ----
(***************************************************************************)
(* Model of app.py (pontonkid/Real-Time-Captioning): the request handler   *)
(* generate_srt_from_video and the caption generator generate_srt.         *)
(*                                                                         *)
(* A string is a sequence of characters; the character " " stands for any  *)
(* whitespace character and "a" for any other one.  "Error:" is the fixed  *)
(* whitespace-free prefix of the message built by transcribe_audio.        *)
(* A spacing value is the rational spacing / SpacingDen, so that the       *)
(* truncation int(spacing) and the comparison spacing < 3 are computed on  *)
(* non-integers as well.                                                   *)
(***************************************************************************)
EXTENDS Integers, Sequences, FiniteSets, TLC

\* ---------------------------------------------------------------- bounds
MaxTextLen == 11
SpacingDen == 2
MaxSpacing == 6
MaxNegSpacing == 1

\* ------------------------------------------------------- program constants
ShortSpacingLimit == 3
ShortTimePerCaption == 3
LongTimePerCaption == 5
ShortMaxWords == 10
LongMaxWords == 5
MinGroupSize == 1
FirstCaptionIndex == 1
StartTime == 0

Chars == {"a", " "}

Texts == UNION {[1..n -> Chars] : n \in 0..MaxTextLen}

SpacingValues == (0 - MaxNegSpacing * SpacingDen)..(MaxSpacing * SpacingDen)

VideoPaths == {"None", "clip.mp4"}

\* str(e) of the exception raised by the transcriber
ErrorMessages == {<<>>, <<"a">>, <<"a", " ", "a">>}

\* the names bound at module level of app.py
ModuleGlobals ==
    {"gr", "ffmpeg", "pipeline", "tempfile", "os", "time", "transcriber",
     "extract_audio_from_video", "transcribe_audio", "generate_srt_from_video",
     "generate_srt", "save_srt_file", "combine_inputs", "demo", "video_input",
     "file_input", "transcribed_text", "caption_slider", "generate_srt_button",
     "srt_output"}

\* the parameters and locals of generate_srt
GenerateSrtLocals ==
    {"text", "spacing", "words", "captions", "current_caption", "current_time",
     "caption_index", "time_per_caption", "max_words_per_caption", "word"}

\* ------------------------------------------------------------ pure helpers
Max(a, b) == IF a >= b THEN a ELSE b

\* int(spacing): truncation towards zero
IntOf(s) == IF s >= 0 THEN s \div SpacingDen ELSE 0 - ((0 - s) \div SpacingDen)

\* spacing < 3
BelowLimit(s) == s < ShortSpacingLimit * SpacingDen

TimePerCaptionSwapped(s) == IF BelowLimit(s) THEN LongTimePerCaption ELSE ShortTimePerCaption
\* time_per_caption = 3 if spacing < 3 else 5
TimePerCaption(s) == IF BelowLimit(s) THEN ShortTimePerCaption ELSE LongTimePerCaption

\* max_words_per_caption = 10 if spacing < 3 else 5
MaxWordsPerCaption(s) == IF BelowLimit(s) THEN ShortMaxWords ELSE LongMaxWords

GroupSizeRounded(s) == Max(MinGroupSize, (2 * s + SpacingDen) \div (2 * SpacingDen))
\* max(1, int(spacing))
GroupSize(s) == Max(MinGroupSize, IntOf(s))

AppendWordReplacing(cur, w) == <<w>>
\* current_caption.append(word)
AppendWord(cur, w) == Append(cur, w)

GroupClosedStrict(cur, s) == Len(cur) > GroupSize(s)
\* len(current_caption) >= max(1, int(spacing))
GroupClosed(cur, s) == Len(cur) >= GroupSize(s)

RECURSIVE SplitRec(_, _, _)
SplitRec(s, cur, acc) ==
    IF s = <<>>
    THEN IF cur = <<>> THEN acc ELSE Append(acc, cur)
    ELSE IF Head(s) = " "
         THEN SplitRec(Tail(s), <<>>, IF cur = <<>> THEN acc ELSE Append(acc, cur))
         ELSE SplitRec(Tail(s), Append(cur, Head(s)), acc)

\* text.split(): the maximal runs of non-whitespace characters
Split(s) == SplitRec(s, <<>>, <<>>)

RECURSIVE JoinRec(_)
JoinRec(ws) ==
    IF ws = <<>> THEN <<>>
    ELSE IF Len(ws) = 1 THEN Head(ws)
    ELSE Head(ws) \o <<" ">> \o JoinRec(Tail(ws))

\* ' '.join(current_caption)
Join(ws) == JoinRec(ws)

\* time.strftime('%H:%M:%S', time.gmtime(t)): hours wrap at 24
Strftime(t) == <<(t \div 3600) % 24, (t \div 60) % 60, t % 60>>

AdvanceTimeByOne(t, d) == t + 1
\* current_time += time_per_caption
AdvanceTime(t, d) == t + d

\* the f-string of one caption: index, "start --> end", text
Render(idx, t, d, cur) ==
    [index |-> idx, start |-> Strftime(t), end |-> Strftime(t + d), text |-> Join(cur)]

\* f"Error: {str(e)}"
ErrorText(msg) == <<"Error:", " ">> \o msg

\* truthiness of a string
Truthy(s) == s # <<>>

\* save_srt_file: one more temporary file holding the content; its path is
\* the position of the file.  No call of it exists in app.py.
SaveSrtFile(files, content) == Append(files, content)

NoResult == [kind |-> "none", doc |-> <<>>]

\* ------------------------------------------------------------------ state
VARIABLES
    pc,                 \* position of the request
    caller,             \* "none", "video" (generate_srt_from_video) or "direct"
    video_path,         \* argument of generate_srt_from_video
    spacing,            \* the spacing argument (numerator over SpacingDen)
    audioExists,        \* the extracted audio file exists
    audioRemovals,      \* number of os.remove calls on the audio file
    transcriberFailed,  \* the transcriber raised in transcribe_audio
    text,               \* transcription / text argument of generate_srt
    words, pos,         \* text.split() and the number of words iterated
    current_caption, captions, current_time, caption_index,
    time_per_caption, max_words_per_caption,
    srtFiles,           \* the files written by save_srt_file
    result              \* what the caller receives

vars == <<pc, caller, video_path, spacing, audioExists, audioRemovals,
          transcriberFailed, text, words, pos, current_caption, captions,
          current_time, caption_index, time_per_caption, max_words_per_caption,
          srtFiles, result>>

locals == <<words, pos, current_caption, captions, current_time, caption_index,
            time_per_caption, max_words_per_caption>>

Init ==
    /\ pc = "idle"
    /\ caller = "none"
    /\ video_path = "None"
    /\ spacing = SpacingDen
    /\ audioExists = FALSE
    /\ audioRemovals = 0
    /\ transcriberFailed = FALSE
    /\ text = <<>>
    /\ words = <<>>
    /\ pos = 0
    /\ current_caption = <<>>
    /\ captions = <<>>
    /\ current_time = StartTime
    /\ caption_index = FirstCaptionIndex
    /\ time_per_caption = 0
    /\ max_words_per_caption = 0
    /\ srtFiles = <<>>
    /\ result = NoResult

\* lines 38-48: entry of generate_srt
EnterGenerateSrt(t, s) ==
    /\ text' = t
    /\ words' = Split(t)
    /\ pos' = 0
    /\ captions' = <<>>
    /\ current_caption' = <<>>
    /\ current_time' = StartTime
    /\ caption_index' = FirstCaptionIndex
    /\ time_per_caption' = TimePerCaption(s)
    /\ max_words_per_caption' = MaxWordsPerCaption(s)
    /\ pc' = "loop"

\* the click handler: generate_srt_from_video(video_path, spacing)
CallGenerateSrtFromVideo ==
    /\ pc = "idle"
    /\ \E v \in VideoPaths, s \in SpacingValues :
          /\ video_path' = v
          /\ spacing' = s
    /\ caller' = "video"
    /\ pc' = "extract"
    /\ UNCHANGED <<audioExists, audioRemovals, transcriberFailed, text, locals,
                   srtFiles, result>>

\* lines 11-18: extract_audio_from_video
ExtractAudio ==
    /\ pc = "extract"
    /\ \E ffmpegOk \in BOOLEAN :
          IF video_path = "None"
          THEN /\ pc' = "raised"
               /\ result' = [kind |-> "AttributeError", doc |-> <<>>]
               /\ UNCHANGED audioExists
          ELSE IF ffmpegOk
          THEN /\ pc' = "transcribe"
               /\ audioExists' = TRUE
               /\ UNCHANGED result
          ELSE /\ pc' = "raised"
               /\ result' = [kind |-> "ffmpeg.Error", doc |-> <<>>]
               /\ UNCHANGED audioExists
    /\ UNCHANGED <<caller, video_path, spacing, audioRemovals, transcriberFailed,
                   text, locals, srtFiles>>

\* lines 20-26: transcribe_audio
TranscribeAudio ==
    /\ pc = "transcribe"
    /\ \/ \E t \in Texts :
             /\ text' = t
             /\ transcriberFailed' = FALSE
       \/ \E msg \in ErrorMessages :
             /\ text' = ErrorText(msg)
             /\ transcriberFailed' = TRUE
    /\ pc' = "dispatch"
    /\ UNCHANGED <<caller, video_path, spacing, audioExists, audioRemovals,
                   locals, srtFiles, result>>

\* lines 33-36: if transcription: return generate_srt(...) else: return "Error..."
Dispatch ==
    /\ pc = "dispatch"
    /\ IF Truthy(text)
       THEN /\ EnterGenerateSrt(text, spacing)
            /\ UNCHANGED result
       ELSE /\ pc' = "returned"
            /\ result' = [kind |-> "Error in transcription.", doc |-> <<>>]
            /\ UNCHANGED <<text, locals>>
    /\ UNCHANGED <<caller, video_path, spacing, audioExists, audioRemovals,
                   transcriberFailed, srtFiles>>

\* a call generate_srt(text, spacing) from outside the handler
CallGenerateSrt ==
    /\ pc = "idle"
    /\ \E t \in Texts, s \in SpacingValues :
          /\ spacing' = s
          /\ EnterGenerateSrt(t, s)
    /\ caller' = "direct"
    /\ UNCHANGED <<video_path, audioExists, audioRemovals, transcriberFailed,
                   srtFiles, result>>

\* lines 50-57: one iteration of the for loop
LoopStep ==
    /\ pc = "loop"
    /\ pos < Len(words)
    /\ pos' = pos + 1
    /\ LET cur == AppendWord(current_caption, words[pos + 1])
       IN IF GroupClosed(cur, spacing)
          THEN /\ captions' = Append(captions,
                                     Render(caption_index, current_time, time_per_caption, cur))
               /\ current_caption' = <<>>
               /\ current_time' = AdvanceTime(current_time, time_per_caption)
               /\ caption_index' = caption_index + 1
          ELSE /\ current_caption' = cur
               /\ UNCHANGED <<captions, current_time, caption_index>>
    /\ UNCHANGED <<pc, caller, video_path, spacing, audioExists, audioRemovals,
                   transcriberFailed, text, words, time_per_caption,
                   max_words_per_caption, srtFiles, result>>

\* lines 59-60: the trailing group
LoopExit ==
    /\ pc = "loop"
    /\ pos = Len(words)
    /\ captions' = IF current_caption # <<>>
                   THEN Append(captions,
                               Render(caption_index, current_time, time_per_caption,
                                      current_caption))
                   ELSE captions
    /\ pc' = "cleanup"
    /\ UNCHANGED <<caller, video_path, spacing, audioExists, audioRemovals,
                   transcriberFailed, text, words, pos, current_caption,
                   current_time, caption_index, time_per_caption,
                   max_words_per_caption, srtFiles, result>>

\* lines 62-65: os.remove(audio_path); return "\n".join(captions)
\* The name audio_path is looked up among the locals of generate_srt and then
\* the module globals; the lookup fails with NameError before os.remove runs.
Cleanup ==
    /\ pc = "cleanup"
    /\ IF "audio_path" \in GenerateSrtLocals \cup ModuleGlobals
       THEN /\ audioExists' = FALSE
            /\ audioRemovals' = audioRemovals + 1
            /\ result' = [kind |-> "document", doc |-> captions]
            /\ pc' = "returned"
       ELSE /\ result' = [kind |-> "NameError", doc |-> <<>>]
            /\ pc' = "raised"
            /\ UNCHANGED <<audioExists, audioRemovals>>
    /\ UNCHANGED <<caller, video_path, spacing, transcriberFailed, text, locals,
                   srtFiles>>

Next ==
    \/ CallGenerateSrtFromVideo
    \/ ExtractAudio
    \/ TranscribeAudio
    \/ Dispatch
    \/ CallGenerateSrt
    \/ LoopStep
    \/ LoopExit
    \/ Cleanup

Spec == Init /\ [][Next]_vars

\* ------------------------------------------------------------- properties
\* generate_srt has built all its captions (loop and trailing group done)
Emitted == pc = "cleanup" \/ result.kind \in {"document", "NameError"}

\* the request stopped before a transcription was obtained
ExtractFailed == result.kind \in {"AttributeError", "ffmpeg.Error"}

Terminated == pc \in {"returned", "raised"}

\* the tokens shown by one caption
TokensOf(c) == Split(c.text)

RECURSIVE CaptionTokens(_)
CaptionTokens(cs) ==
    IF cs = <<>> THEN <<>> ELSE TokensOf(Head(cs)) \o CaptionTokens(Tail(cs))

Seconds(hms) == hms[1] * 3600 + hms[2] * 60 + hms[3]

\* C1: once generate_srt has emitted all groups of a non-empty token
\* sequence, the tokens of the captions, concatenated in emission order, are
\* exactly the whitespace-split tokens of the text.
C1_TokensPreserved ==
    (Emitted /\ Split(text) # <<>>) => CaptionTokens(captions) = Split(text)

C1_Witness ==
    /\ Emitted
    /\ Len(captions) >= 3
    /\ Len(Split(text)) >= 5
    /\ \E j \in 1..Len(Split(text)) : Split(text)[j] # Split(text)[1]
    /\ Len(TokensOf(captions[Len(captions)])) < GroupSize(spacing)

\* C2: with groupSize = max(1, int(spacing)), every group emitted in the
\* loop has exactly groupSize tokens, and when all groups are emitted every
\* group but the last has groupSize tokens and the last has 1..groupSize.
C2_GroupSizes ==
    LET gs == Max(1, IntOf(spacing))
        n(j) == Len(TokensOf(captions[j]))
    IN /\ pc = "loop" =>
            /\ \A j \in 1..Len(captions) : n(j) = gs
            /\ Len(current_caption) < gs
       /\ Emitted =>
            \A j \in 1..Len(captions) :
                /\ j < Len(captions) => n(j) = gs
                /\ n(j) >= 1
                /\ n(j) <= gs

C2_Witness ==
    /\ Emitted
    /\ IntOf(spacing) >= 2
    /\ spacing % SpacingDen # 0
    /\ Len(captions) >= 2
    /\ Len(TokensOf(captions[Len(captions)])) < IntOf(spacing)

\* C3: the caption indices are 1, 2, ..., n in emission order and the end
\* time of each caption is the start time of the next one.
C3_IndicesAndContiguity ==
    \A j \in 1..Len(captions) :
        /\ captions[j].index = j
        /\ j < Len(captions) => captions[j].end = captions[j + 1].start

C3_Witness ==
    /\ Emitted
    /\ Len(captions) >= 3
    /\ current_caption # <<>>
    /\ captions[Len(captions)].index = Len(captions)

\* C4 (as claimed): an empty or whitespace-only transcript yields a track
\* with zero captions whose document is the empty string, not an error.
C4_EmptyTranscriptYieldsEmptyTrack ==
    (Terminated /\ ~ExtractFailed /\ ~transcriberFailed /\ Split(text) = <<>>)
        => result = [kind |-> "document", doc |-> <<>>]

\* C5 (as claimed): a failed transcription is never segmented into caption
\* blocks.
C5_FailureNeverSegmented ==
    transcriberFailed => (captions = <<>> /\ pc \notin {"loop", "cleanup"})

\* C6 (as claimed): for spacing below 1 every caption holds exactly one
\* token and generate_srt returns a document rather than raising.
C6_BelowOneReturnsDocument ==
    (spacing < SpacingDen /\ Terminated /\ Emitted)
        => /\ result.kind = "document"
           /\ \A j \in 1..Len(captions) : Len(TokensOf(captions[j])) = 1

\* C7: the k-th caption (0-based) has the interval [k*d, (k+1)*d) where
\* d = 3 if spacing < 3 and 5 otherwise; start times strictly increase.
C7_UniformIntervals ==
    LET d == IF spacing < 3 * SpacingDen THEN 3 ELSE 5
    IN \A j \in 1..Len(captions) :
          /\ captions[j].start = Strftime((j - 1) * d)
          /\ captions[j].end = Strftime(j * d)
          /\ Seconds(captions[j].start) = (j - 1) * d
          /\ Seconds(captions[j].end) - Seconds(captions[j].start) = d
          /\ j < Len(captions) =>
                Seconds(captions[j].start) < Seconds(captions[j + 1].start)

C7_Witness ==
    /\ Emitted
    /\ spacing >= 3 * SpacingDen
    /\ Len(captions) = 2
    /\ Len(TokensOf(captions[2])) < Len(TokensOf(captions[1]))
    /\ captions[2].end = <<0, 0, 10>>

\* C8 (as claimed): a request that completes has persisted its document
\* exactly once with save_srt_file and hands the file's path to the caller.
C8_CompletedRequestPersistsOnce ==
    (caller = "video" /\ pc = "returned")
        => (Len(srtFiles) = 1 /\ result.kind = "path")

\* C9 (as claimed): a request with a non-empty transcription ends with the
\* audio file removed exactly once and the joined document returned.
C9_AudioRemovedThenDocumentReturned ==
    (caller = "video" /\ Terminated /\ ~ExtractFailed /\ Truthy(text))
        => /\ audioRemovals = 1
           /\ ~audioExists
           /\ result = [kind |-> "document", doc |-> captions]

\* C10: for an integer spacing in 1..5 no caption has more tokens than
\* max_words_per_caption, which is 10 when spacing < 3 and 5 otherwise.
C10_WithinTableLimit ==
    LET limit == IF spacing < 3 * SpacingDen THEN 10 ELSE 5
    IN (/\ spacing % SpacingDen = 0
        /\ spacing >= SpacingDen
        /\ spacing <= 5 * SpacingDen
        /\ pc \in {"loop", "cleanup"} \/ Emitted)
          => /\ max_words_per_caption = limit
             /\ \A j \in 1..Len(captions) : Len(TokensOf(captions[j])) <= limit

C10_Witness ==
    /\ Emitted
    /\ spacing = 5 * SpacingDen
    /\ Len(captions) = 2
    /\ Len(TokensOf(captions[1])) = 5
    /\ max_words_per_caption = 5

====
